---- MODULE Spec2Model ----
(***************************************************************************)
(* OpenVault data utilities (src/utils/data.js).                           *)
(*                                                                         *)
(* Two operations are modelled:                                            *)
(*   - pruneMemoriesForBranch: the synchronous branch reconciliation pass  *)
(*     over the OpenVault store held in the chat metadata;                 *)
(*   - saveOpenVaultData: the asynchronous save with its chat-change guard.*)
(*                                                                         *)
(* JavaScript objects with optional fields are records whose DOMAIN holds  *)
(* exactly the fields that are present; `delete o.f` removes f from the    *)
(* DOMAIN.  Values that the code inspects with typeof are tagged records   *)
(* (Num(n) for a number, Str for a non-numeric value).                     *)
(***************************************************************************)
EXTENDS Integers, Sequences, FiniteSets, TLC

VARIABLES
    data,          \* the OpenVault store (context.chatMetadata[METADATA_KEY])
    chatLength,    \* context.chat.length
    report,        \* value returned by the last pruneMemoriesForBranch call
    pre,           \* the store as it was when the last call started
    preLen,        \* chatLength when the last call started
    prevReport,    \* value returned by the call before the last one
    calls,         \* number of pruneMemoriesForBranch calls so far
    streak,        \* consecutive calls made at the current chatLength
    context,       \* host context as read by getCurrentChatId
    savePc,        \* position of the saveOpenVaultData call
    expectedChatId,\* argument of the saveOpenVaultData call
    currentId,     \* getCurrentChatId() as read by the guard of the call
    hostSaves,     \* invocations of saveChatConditional by the call
    hostOutcome,   \* how the saveChatConditional promise settled
    saveResult     \* settlement of the promise returned by the call

pruneVars == <<data, chatLength, report, pre, preLen, prevReport, calls, streak>>
saveVars == <<context, savePc, expectedChatId, currentId, hostSaves, hostOutcome, saveResult>>
vars == <<data, chatLength, report, pre, preLen, prevReport, calls, streak,
          context, savePc, expectedChatId, currentId, hostSaves, hostOutcome, saveResult>>

----------------------------------------------------------------------------
(* Bounds *)

MaxLen == 2        \* transcript lengths and message indices range over 0..MaxLen
MaxMemories == 2   \* memories in the store
MaxIds == 2        \* message_ids per memory
MaxEvents == 2     \* known_events per character
MaxHistory == 2    \* history entries per relationship
MaxCalls == 2      \* pruneMemoriesForBranch calls in one behaviour

----------------------------------------------------------------------------
(* JavaScript values *)

Num(n) == [type |-> "number", val |-> n]
Str == [type |-> "string"]
Text(s) == [type |-> "string", val |-> s]
Null == [type |-> "null"]
Undefined == [type |-> "undefined"]
EmptyObject == [f \in {} |-> 0]

Has(obj, field) == field \in DOMAIN obj
TypeOf(obj, field) == IF Has(obj, field) THEN obj[field].type ELSE "undefined"
Delete(obj, field) == [f \in DOMAIN obj \ {field} |-> obj[f]]
SeqsUpTo(S, n) == UNION {[1..k -> S] : k \in 0..n}

ZeroReport == [prunedMemories |-> 0, prunedCharacterEvents |-> 0, prunedRelationships |-> 0]

----------------------------------------------------------------------------
(* pruneMemoriesForBranch *)

messageIds(memory) == IF Has(memory, "message_ids") THEN memory.message_ids ELSE <<>>

hasInvalidMessageId_FirstOnly(memory, len) ==
    Len(messageIds(memory)) > 0 /\ messageIds(memory)[1] >= len

hasInvalidMessageId(memory, len) ==
    \E i \in DOMAIN messageIds(memory) : messageIds(memory)[i] >= len

validMemories(memories, len) ==
    SelectSeq(memories, LAMBDA memory : ~hasInvalidMessageId(memory, len))

prunedMemoryIds(memories, len) ==
    {memories[i].id : i \in {j \in DOMAIN memories : hasInvalidMessageId(memories[j], len)}}

prunedMemories(memories, len) ==
    Cardinality({j \in DOMAIN memories : hasInvalidMessageId(memories[j], len)})

filterKnownEvents_Inverted(events, ids) ==
    SelectSeq(events, LAMBDA eventId : eventId \in ids)

filterKnownEvents(events, ids) ==
    SelectSeq(events, LAMBDA eventId : eventId \notin ids)

removedEvents(state, ids) ==
    IF Has(state, "known_events")
    THEN Len(state.known_events) - Len(filterKnownEvents(state.known_events, ids))
    ELSE 0

cleanKnownEvents(state, ids) ==
    IF Has(state, "known_events")
    THEN [state EXCEPT !.known_events = filterKnownEvents(@, ids)]
    ELSE state

cleanEmotion(state, len) ==
    IF Has(state, "emotion_from_messages")
    THEN IF state.emotion_from_messages.max >= len
         THEN IF state.emotion_from_messages.min >= len
              THEN Delete(state, "emotion_from_messages")
              ELSE [state EXCEPT !.emotion_from_messages.max = len - 1]
         ELSE state
    ELSE state

cleanCharacterState(state, ids, len) == cleanEmotion(cleanKnownEvents(state, ids), len)

RECURSIVE SumRemoved(_, _, _)
SumRemoved(characterStates, names, ids) ==
    IF names = {} THEN 0
    ELSE LET charName == CHOOSE n \in names : TRUE
         IN removedEvents(characterStates[charName], ids)
            + SumRemoved(characterStates, names \ {charName}, ids)

prunedCharacterEvents(characterStates, ids) ==
    SumRemoved(characterStates, DOMAIN characterStates, ids)

relationshipResetId_OffByOne(len) == IF len > 0 THEN len ELSE -1

relationshipResetId(len) == IF len > 0 THEN len - 1 ELSE -1

relationshipIsStale(relationship, len) ==
    /\ TypeOf(relationship, "last_updated_message_id") = "number"
    /\ relationship.last_updated_message_id.val >= len

keepHistoryEntry_NoTypeCheck(h, len) ==
    TypeOf(h, "message_id") = "number" /\ h.message_id.val < len

keepHistoryEntry(h, len) ==
    TypeOf(h, "message_id") # "number" \/ h.message_id.val < len

cleanHistory(relationship, len) ==
    IF Has(relationship, "history")
    THEN [relationship EXCEPT !.history = SelectSeq(@, LAMBDA h : keepHistoryEntry(h, len))]
    ELSE relationship

resetRelationship(relationship, len) ==
    IF relationshipIsStale(relationship, len)
    THEN [relationship EXCEPT !.last_updated_message_id = Num(relationshipResetId(len))]
    ELSE relationship

cleanRelationship(relationship, len) == cleanHistory(resetRelationship(relationship, len), len)

prunedRelationships(relationships, len) ==
    Cardinality({key \in DOMAIN relationships : relationshipIsStale(relationships[key], len)})

cleanLastProcessed(store, len) ==
    IF TypeOf(store, "last_processed_message_id") = "number"
       /\ store.last_processed_message_id.val >= len
    THEN [store EXCEPT !.last_processed_message_id = Num(IF len > 0 THEN len - 1 ELSE -1)]
    ELSE store

nothingToPrune_MemoriesOnly(memories, len) == Len(memories) = 0

nothingToPrune(memories, len) == len = 0 \/ Len(memories) = 0

cleanedStore(store, len) ==
    LET ids == prunedMemoryIds(store.memories, len)
        withMemories ==
            IF prunedMemories(store.memories, len) > 0
            THEN [store EXCEPT !.memories = validMemories(store.memories, len)]
            ELSE store
        withCharacters ==
            [withMemories EXCEPT !.character_states =
                [charName \in DOMAIN @ |-> cleanCharacterState(@[charName], ids, len)]]
        withRelationships ==
            [withCharacters EXCEPT !.relationships =
                [key \in DOMAIN @ |-> cleanRelationship(@[key], len)]]
    IN cleanLastProcessed(withRelationships, len)

prunedStore(store, len) ==
    IF nothingToPrune(store.memories, len) THEN store ELSE cleanedStore(store, len)

pruneResult(store, len) ==
    IF nothingToPrune(store.memories, len)
    THEN ZeroReport
    ELSE [prunedMemories |-> prunedMemories(store.memories, len),
          prunedCharacterEvents |->
              prunedCharacterEvents(store.character_states, prunedMemoryIds(store.memories, len)),
          prunedRelationships |-> prunedRelationships(store.relationships, len)]

----------------------------------------------------------------------------
(* Stores the extraction logic can have left behind *)

MessageIndex == 0..MaxLen

\* message_ids are recorded in transcript order
Increasing(seq) == \A i \in DOMAIN seq : \A j \in DOMAIN seq : i < j => seq[i] < seq[j]

\* known_events is a set of memory ids kept in insertion order
Distinct(seq) == \A i \in DOMAIN seq : \A j \in DOMAIN seq : i # j => seq[i] # seq[j]

MemoryShapes ==
    {EmptyObject} \cup
    {[message_ids |-> ids] : ids \in {q \in SeqsUpTo(MessageIndex, MaxIds) : Increasing(q)}}

SimpleMemoryShapes == {[message_ids |-> <<0>>], [message_ids |-> <<MaxLen>>]}

WithIds(shapes) == [i \in DOMAIN shapes |-> [id |-> i] @@ shapes[i]]

MemoriesOf(shapeSet, n) == {WithIds(shapes) : shapes \in SeqsUpTo(shapeSet, n)}

KnownEventsStates ==
    {EmptyObject} \cup
    {[known_events |-> e] : e \in {q \in SeqsUpTo(1..MaxMemories, MaxEvents) : Distinct(q)}}

EmotionStates ==
    {EmptyObject} \cup
    {[emotion_from_messages |-> [min |-> lo, max |-> hi]] : lo \in MessageIndex, hi \in MessageIndex}

JsIds == {Num(n) : n \in MessageIndex} \cup {Str}

HistoryEntryShapes == {EmptyObject} \cup {[message_id |-> v] : v \in JsIds}

WithNotes(shapes) == [i \in DOMAIN shapes |-> [note |-> i] @@ shapes[i]]

Histories == {WithNotes(shapes) : shapes \in SeqsUpTo(HistoryEntryShapes, MaxHistory)}

CursorStates == {EmptyObject} \cup {[last_updated_message_id |-> v] : v \in JsIds}

HistoryStates ==
    {c @@ [history |-> x] : c \in CursorStates, x \in Histories}

LastProcessedValues == JsIds \cup {Num(-1)}

DefaultStore ==
    [memories |-> <<>>, character_states |-> EmptyObject, relationships |-> EmptyObject,
     last_processed_message_id |-> Num(-1)]

MemoryStores ==
    {[DefaultStore EXCEPT !.memories = m,
                          !.character_states = [Alice |-> [known_events |-> [i \in 1..MaxMemories |-> i]]]] :
        m \in MemoriesOf(MemoryShapes, MaxMemories)}

KnownEventsStores ==
    {[DefaultStore EXCEPT !.memories = m, !.character_states = c] :
        m \in {WithIds(shapes) : shapes \in [1..MaxMemories -> SimpleMemoryShapes]},
        c \in [{"Alice", "Bob"} -> KnownEventsStates]}

EmotionStores ==
    {[DefaultStore EXCEPT !.memories = m, !.character_states = c] :
        m \in MemoriesOf(SimpleMemoryShapes, 1),
        c \in [{"Alice", "Bob"} -> EmotionStates]}

RelationshipStores ==
    {[DefaultStore EXCEPT !.memories = m,
                          !.relationships = [AliceBob |-> r, BobCarol |-> c]] :
        m \in MemoriesOf(SimpleMemoryShapes, 1),
        r \in CursorStates, c \in CursorStates}

HistoryStores ==
    {[DefaultStore EXCEPT !.memories = m, !.relationships = [AliceBob |-> r]] :
        m \in MemoriesOf(SimpleMemoryShapes, 1), r \in HistoryStates}

CursorStores ==
    {[DefaultStore EXCEPT !.memories = m, !.last_processed_message_id = v] :
        m \in MemoriesOf(SimpleMemoryShapes, 1), v \in LastProcessedValues}
    \cup
    {Delete([DefaultStore EXCEPT !.memories = m], "last_processed_message_id") :
        m \in MemoriesOf(SimpleMemoryShapes, 1)}

Stores ==
    MemoryStores \cup KnownEventsStores \cup EmotionStores
        \cup RelationshipStores \cup HistoryStores \cup CursorStores

----------------------------------------------------------------------------
(* Behaviours of the reconciliation pass *)

SaveIdle ==
    /\ context = Null
    /\ savePc = "idle"
    /\ expectedChatId = Null
    /\ currentId = Null
    /\ hostSaves = 0
    /\ hostOutcome = "none"
    /\ saveResult = "pending"

Init ==
    /\ data \in Stores
    /\ chatLength \in 0..MaxLen
    /\ report = ZeroReport
    /\ pre = data
    /\ preLen = 0
    /\ prevReport = ZeroReport
    /\ calls = 0
    /\ streak = 0
    /\ SaveIdle

PruneMemoriesForBranch ==
    /\ calls < MaxCalls
    /\ data' = prunedStore(data, chatLength)
    /\ report' = pruneResult(data, chatLength)
    /\ pre' = data
    /\ preLen' = chatLength
    /\ prevReport' = report
    /\ calls' = calls + 1
    /\ streak' = streak + 1
    /\ UNCHANGED chatLength
    /\ UNCHANGED saveVars

\* the user branches from an earlier point of the conversation
CreateBranch ==
    /\ calls < MaxCalls
    /\ chatLength' \in 0..(chatLength - 1)
    /\ streak' = 0
    /\ UNCHANGED <<data, report, pre, preLen, prevReport, calls>>
    /\ UNCHANGED saveVars

Next == PruneMemoriesForBranch \/ CreateBranch

Spec == Init /\ [][Next]_vars

----------------------------------------------------------------------------
(* getCurrentChatId and saveOpenVaultData *)

ChatIds == {Text(""), Text("chatA"), Text("chatB")}

ChatMetadatas == {EmptyObject} \cup {[chat_id |-> id] : id \in ChatIds}

Contexts ==
    {Null} \cup
    {c @@ m : c \in {EmptyObject} \cup {[chatId |-> id] : id \in ChatIds},
              m \in {EmptyObject} \cup {[chat_metadata |-> x] : x \in ChatMetadatas}}

Truthy(v) == v.type = "string" /\ v.val # ""

getCurrentChatId(ctx) ==
    LET chatId == IF ctx # Null /\ Has(ctx, "chatId") THEN ctx.chatId ELSE Undefined
        chat_id == IF ctx # Null /\ Has(ctx, "chat_metadata") /\ Has(ctx.chat_metadata, "chat_id")
                   THEN ctx.chat_metadata.chat_id
                   ELSE Undefined
    IN IF Truthy(chatId) THEN chatId
       ELSE IF Truthy(chat_id) THEN chat_id
       ELSE Null

abortsSave_NoGuard(expected, current) == FALSE

abortsSave(expected, current) == expected # Null /\ current # expected

saveFailureResult == "false"

SaveOpenVaultData(expected) ==
    /\ savePc \in {"idle", "returned"}
    /\ expectedChatId' = expected
    /\ currentId' = IF expected # Null THEN getCurrentChatId(context) ELSE Null
    /\ hostOutcome' = "none"
    /\ IF abortsSave(expected, currentId')
       THEN /\ savePc' = "returned"
            /\ saveResult' = "false"
            /\ hostSaves' = 0
       ELSE /\ savePc' = "awaiting"
            /\ saveResult' = "pending"
            /\ hostSaves' = 1
    /\ UNCHANGED context
    /\ UNCHANGED pruneVars

SaveChatCompletes ==
    /\ savePc = "awaiting"
    /\ hostOutcome' = "completed"
    /\ saveResult' = "true"
    /\ savePc' = "returned"
    /\ UNCHANGED <<context, expectedChatId, currentId, hostSaves>>
    /\ UNCHANGED pruneVars

SaveChatFails ==
    /\ savePc = "awaiting"
    /\ hostOutcome' = "failed"
    /\ saveResult' = saveFailureResult
    /\ savePc' = "returned"
    /\ UNCHANGED <<context, expectedChatId, currentId, hostSaves>>
    /\ UNCHANGED pruneVars

ChatChanged ==
    /\ context' \in Contexts \ {context}
    /\ UNCHANGED <<savePc, expectedChatId, currentId, hostSaves, hostOutcome, saveResult>>
    /\ UNCHANGED pruneVars

InitSave ==
    /\ data = DefaultStore
    /\ chatLength = 0
    /\ report = ZeroReport
    /\ pre = data
    /\ preLen = chatLength
    /\ prevReport = ZeroReport
    /\ calls = 0
    /\ streak = 0
    /\ context \in Contexts
    /\ savePc = "idle"
    /\ expectedChatId = Null
    /\ currentId = Null
    /\ hostSaves = 0
    /\ hostOutcome = "none"
    /\ saveResult = "pending"

NextSave ==
    \/ \E expected \in {Null} \cup ChatIds : SaveOpenVaultData(expected)
    \/ SaveChatCompletes
    \/ SaveChatFails
    \/ ChatChanged

SpecSave == InitSave /\ [][NextSave]_vars

----------------------------------------------------------------------------
(* Properties of pruneMemoriesForBranch.  A call has returned when         *)
(* calls > 0; pre and preLen are the store and the transcript length it    *)
(* was given, data and report are what it left and returned.               *)

LastProcessed == "last_processed_message_id"
LastUpdated == "last_updated_message_id"
Emotion == "emotion_from_messages"

\* post is seq restricted to the positions in keep, in the original order
IsRestriction(post, seq, keep) ==
    /\ Len(post) = Cardinality(keep)
    /\ \A i \in keep : post[Cardinality({k \in keep : k <= i})] = seq[i]

AllIdsBelow(memory, len) ==
    Has(memory, "message_ids") =>
        \A i \in DOMAIN memory.message_ids : memory.message_ids[i] < len

InRange(store, len) ==
    /\ \A i \in DOMAIN store.memories : AllIdsBelow(store.memories[i], len)
    /\ \A c \in DOMAIN store.character_states :
           Has(store.character_states[c], Emotion) =>
               store.character_states[c][Emotion].max < len
    /\ \A k \in DOMAIN store.relationships :
           LET r == store.relationships[k]
           IN /\ TypeOf(r, LastUpdated) = "number" => r[LastUpdated].val < len
              /\ Has(r, "history") =>
                     \A i \in DOMAIN r.history :
                         TypeOf(r.history[i], "message_id") = "number" =>
                             r.history[i].message_id.val < len
    /\ TypeOf(store, LastProcessed) = "number" => store[LastProcessed].val < len

\* C1: after a call with transcript length L > 0, no memory, emotion range,
\* relationship cursor, history entry or last-processed cursor of the store
\* references a message position >= L.
C1_NoOutOfRangeReferences ==
    (calls > 0 /\ preLen > 0) => InRange(data, preLen)

\* C2: a second call made right after a first one with the same transcript
\* length leaves the store as the first call left it and returns {0, 0, 0}.
C2_Idempotent ==
    streak >= 2 => (data = pre /\ report = ZeroReport)

C2_Witness ==
    /\ streak >= 2
    /\ prevReport.prunedMemories > 0
    /\ Len(data.memories) > 0
    /\ preLen > 0

\* C3: a numeric last-processed cursor >= L becomes L - 1 (or -1 when L = 0)
\* and a numeric cursor < L is left unchanged.
C3_CursorClamp ==
    (calls > 0 /\ TypeOf(pre, LastProcessed) = "number") =>
        IF pre[LastProcessed].val >= preLen
        THEN /\ Has(data, LastProcessed)
             /\ data[LastProcessed] = Num(IF preLen > 0 THEN preLen - 1 ELSE -1)
        ELSE /\ Has(data, LastProcessed)
             /\ data[LastProcessed] = pre[LastProcessed]

C5_ConjunctiveMemoryValidity ==
    (calls > 0 /\ preLen > 0 /\ Len(pre.memories) > 0) =>
        LET keep == {i \in DOMAIN pre.memories : AllIdsBelow(pre.memories[i], preLen)}
        IN /\ IsRestriction(data.memories, pre.memories, keep)
           /\ report.prunedMemories = Len(pre.memories) - Cardinality(keep)

C5_Witness ==
    /\ calls > 0
    /\ preLen > 0
    /\ Len(pre.memories) = 2
    /\ Len(data.memories) = 1
    /\ data.memories[1] = pre.memories[2]
    /\ \E i \in DOMAIN messageIds(pre.memories[1]) : messageIds(pre.memories[1])[i] < preLen
    /\ report.prunedMemories = 1

RemovedMemoryIds ==
    {pre.memories[i].id : i \in DOMAIN pre.memories}
        \ {data.memories[i].id : i \in DOMAIN data.memories}

\* C6: after a call every character's known_events is its prior sequence
\* without the ids of the memories the call removed, order preserved, and
\* prunedCharacterEvents is the number of entries removed over all
\* characters.
C6_CascadingCleanup ==
    calls > 0 =>
        /\ \A c \in DOMAIN pre.character_states :
               Has(pre.character_states[c], "known_events") =>
                   LET before == pre.character_states[c].known_events
                   IN /\ Has(data.character_states[c], "known_events")
                      /\ IsRestriction(data.character_states[c].known_events, before,
                                       {i \in DOMAIN before : before[i] \notin RemovedMemoryIds})
        /\ report.prunedCharacterEvents =
               Cardinality(UNION {
                   {<<c, i>> : i \in {j \in DOMAIN pre.character_states[c].known_events :
                                         pre.character_states[c].known_events[j] \in RemovedMemoryIds}} :
                   c \in {n \in DOMAIN pre.character_states :
                              Has(pre.character_states[n], "known_events")}})

C6_Witness ==
    /\ calls > 0
    /\ report.prunedCharacterEvents >= 2
    /\ \A c \in DOMAIN pre.character_states :
           /\ Has(pre.character_states[c], "known_events")
           /\ Len(data.character_states[c].known_events) < Len(pre.character_states[c].known_events)
    /\ \E c \in DOMAIN pre.character_states : Len(data.character_states[c].known_events) > 0

\* C7: in a call with transcript length L, an emotion range with max < L is
\* unchanged, one with max >= L and min >= L is deleted, and one with
\* max >= L and min < L keeps min and gets max = L - 1.
C7_EmotionTwoTier ==
    calls > 0 =>
        \A c \in DOMAIN pre.character_states :
            Has(pre.character_states[c], Emotion) =>
                LET e == pre.character_states[c][Emotion]
                    post == data.character_states[c]
                IN IF e.max < preLen
                   THEN Has(post, Emotion) /\ post[Emotion] = e
                   ELSE IF e.min >= preLen
                        THEN ~Has(post, Emotion)
                        ELSE Has(post, Emotion)
                             /\ post[Emotion] = [min |-> e.min, max |-> preLen - 1]

WasStale(k) ==
    /\ TypeOf(pre.relationships[k], LastUpdated) = "number"
    /\ pre.relationships[k][LastUpdated].val >= preLen

\* C8: prunedRelationships is the number of relationships whose
\* last_updated_message_id was a number >= L, each of which is reset to
\* L - 1; every other relationship keeps its last_updated_message_id.
C8_RelationshipCount ==
    calls > 0 =>
        /\ report.prunedRelationships =
               Cardinality({k \in DOMAIN pre.relationships : WasStale(k)})
        /\ \A k \in DOMAIN pre.relationships :
               IF WasStale(k)
               THEN data.relationships[k][LastUpdated] = Num(preLen - 1)
               ELSE /\ Has(data.relationships[k], LastUpdated) = Has(pre.relationships[k], LastUpdated)
                    /\ Has(pre.relationships[k], LastUpdated) =>
                           data.relationships[k][LastUpdated] = pre.relationships[k][LastUpdated]

\* C9: a call removes a history entry only if its message_id is a number
\* >= L; every other entry is still present, in the original order.
C9_HistoryKeepsNonNumeric ==
    calls > 0 =>
        \A k \in DOMAIN pre.relationships :
            Has(pre.relationships[k], "history") =>
                LET before == pre.relationships[k].history
                    after == data.relationships[k].history
                    kept == {i \in DOMAIN before : \E j \in DOMAIN after : after[j] = before[i]}
                IN /\ Has(data.relationships[k], "history")
                   /\ IsRestriction(after, before, kept)
                   /\ \A i \in DOMAIN before \ kept :
                          /\ TypeOf(before[i], "message_id") = "number"
                          /\ before[i].message_id.val >= preLen

C9_Witness ==
    /\ calls > 0
    /\ \E k \in DOMAIN pre.relationships :
           /\ Has(pre.relationships[k], "history")
           /\ Len(pre.relationships[k].history) = 2
           /\ Len(data.relationships[k].history) = 1
           /\ TypeOf(data.relationships[k].history[1], "message_id") # "number"
           /\ data.relationships[k].history[1] = pre.relationships[k].history[2]

----------------------------------------------------------------------------
(* Property of saveOpenVaultData *)

\* C10: a call with a non-null expectedChatId that differs from the current
\* chat id returns false without invoking saveChatConditional; the host save
\* is invoked only when no expectedChatId is given or the ids match; the
\* call resolves to true only if the host save completed, to false
\* otherwise, and never rejects.
C10_ChatChangeGuard ==
    /\ (savePc # "idle" /\ expectedChatId # Null /\ currentId # expectedChatId) =>
           (savePc = "returned" /\ saveResult = "false" /\ hostSaves = 0)
    /\ hostSaves > 0 => (expectedChatId = Null \/ currentId = expectedChatId)
    /\ savePc = "returned" => saveResult \in {"true", "false"}
    /\ saveResult = "true" => (hostSaves = 1 /\ hostOutcome = "completed")
    /\ hostOutcome = "failed" => saveResult = "false"
    /\ saveResult # "rejected"

C10_Witness ==
    /\ savePc = "returned"
    /\ expectedChatId = Text("chatA")
    /\ currentId = Text("chatB")
    /\ getCurrentChatId(context) = Text("chatB")
    /\ saveResult = "false"
    /\ hostSaves = 0

====
